---- MODULE Spec2Model ----
(***************************************************************************)
(* Model of scripts/ingestion.py: the bronze / silver / gold pipeline over *)
(* a DuckDB file.  One run of the script is StartRun, LoadFile per listed  *)
(* file, Silver, Fat, Dim.  The database file outlives a run, so a later   *)
(* run starts from the tables the earlier one left.                        *)
(***************************************************************************)
EXTENDS Integers, Sequences, FiniteSets, Bags, TLC

\* ------------------------------------------------------------ bounds
MaxRows == 1
MaxClock == 2
MaxRuns == 2

\* ------------------------------------------------------------ text
\* A cell of a CSV file is a sequence of one-character strings.
DigitChars == <<"0", "1", "2", "3", "4", "5", "6", "7", "8", "9">>

IsDigit(c) == \E i \in 1..10 : DigitChars[i] = c

DigitVal(c) == (CHOOSE i \in 1..10 : DigitChars[i] = c) - 1

RECURSIVE DigitsValue(_)
DigitsValue(t) ==
    IF Len(t) = 0 THEN 0
    ELSE 10 * DigitsValue(SubSeq(t, 1, Len(t) - 1)) + DigitVal(t[Len(t)])

\* CAST(BIGINT AS VARCHAR): the decimal digits of n, no leading zero.
RECURSIVE IntText(_)
IntText(n) ==
    IF n < 10 THEN <<DigitChars[n + 1]>>
    ELSE IntText(n \div 10) \o <<DigitChars[(n % 10) + 1]>>

IsInt(t) == Len(t) > 0 /\ \A i \in 1..Len(t) : IsDigit(t[i])

DotAt(t) == CHOOSE d \in 1..Len(t) : t[d] = "."

IsFloat(t) ==
    /\ Cardinality({d \in 1..Len(t) : t[d] = "."}) = 1
    /\ IsInt(SubSeq(t, 1, DotAt(t) - 1))
    /\ IsInt(SubSeq(t, DotAt(t) + 1, Len(t)))

RECURSIVE StripZeros(_)
StripZeros(t) ==
    IF Len(t) > 0 /\ t[Len(t)] = "0" THEN StripZeros(SubSeq(t, 1, Len(t) - 1))
    ELSE t

\* The value of a decimal literal: <<mantissa, number of fraction digits>>,
\* trailing zeros of the fraction dropped.
FloatValue(t) ==
    IF IsInt(t) THEN <<DigitsValue(t), 0>>
    ELSE LET frac == StripZeros(SubSeq(t, DotAt(t) + 1, Len(t)))
         IN  <<DigitsValue(SubSeq(t, 1, DotAt(t) - 1) \o frac), Len(frac)>>

\* CAST(DOUBLE AS VARCHAR): integer part, a dot, the fraction ("0" if none).
FloatText(t) ==
    LET whole == IF IsInt(t) THEN t ELSE SubSeq(t, 1, DotAt(t) - 1)
        frac  == IF IsInt(t) THEN <<>>
                 ELSE StripZeros(SubSeq(t, DotAt(t) + 1, Len(t)))
    IN  IntText(DigitsValue(whole)) \o <<".">> \o
        (IF Len(frac) = 0 THEN <<"0">> ELSE frac)

\* int(str) as numpy applies it to an object column (astype int64): decimal
\* digits, single underscores allowed between digits, leading zeros allowed.
\* -1 stands for ValueError.
PyInt(t) ==
    IF /\ Len(t) > 0
       /\ \A i \in 1..Len(t) : IsDigit(t[i]) \/ t[i] = "_"
       /\ IsDigit(t[1]) /\ IsDigit(t[Len(t)])
       /\ \A i \in 1..(Len(t) - 1) : ~(t[i] = "_" /\ t[i + 1] = "_")
    THEN DigitsValue(SelectSeq(t, IsDigit))
    ELSE -1

\* float(str) for astype float32; <<-1, 0>> stands for ValueError.  The
\* prices of the model are multiples of 1/2, which float32 holds exactly.
PyFloat(t) == IF IsInt(t) \/ IsFloat(t) THEN FloatValue(t) ELSE <<-1, 0>>

\* ------------------------------------------------------------ input files
Schema == <<"NATBR", "MAKTX", "WERKS", "MAINS", "LABST">>

MissingColumn == <<"NATBR", "MAKTX", "WERKS", "MAINS">>

RenamedColumn == <<"NATBR", "MAKTX", "WERKS", "MAINS", "PRICE">>

ExtraColumn == Schema \o <<"NOTES">>

Headers == {Schema, MissingColumn, RenamedColumn, ExtraColumn}

FileNames == {"a.csv", "b.csv"}

\* Business keys as written in a file: 07 and 0_7 both read as the integer 7
\* by int(), 0_7 and x are not numbers for read_csv.
KeyTokens == {<<"0", "7">>, <<"0", "_", "7">>, <<"8">>, <<"x">>}

\* name, category, supplier, price
ValuesA == <<<<"a">>, <<"c">>, <<"5">>, <<"1", ".", "5">>>>

ValueTokens ==
    { ValuesA,
      <<<<"b">>, <<"d">>, <<"0", "6">>, <<"2", ".", "5", "0">>>> }

\* Every key with one set of values, and one key with a second version.
RowKinds == {<<k>> \o ValuesA : k \in KeyTokens} \cup {<<<<"0", "7">>>> \o v : v \in ValueTokens}

RowFor(h, r) == [j \in 1..Len(h) |-> IF j <= Len(r) THEN r[j] ELSE <<"e">>]

RECURSIVE SeqsUpTo(_, _)
SeqsUpTo(S, n) ==
    IF n = 0 THEN {<<>>}
    ELSE LET shorter == SeqsUpTo(S, n - 1)
         IN  shorter \cup {Append(q, x) : q \in {p \in shorter : Len(p) = n - 1}, x \in S}

\* The versions of one key only: what a re-run needs, beside a bad key.
RerunKinds == {r \in RowKinds : r[1] \in {<<"0", "7">>, <<"x">>}}

FileRows(h, kinds) == SeqsUpTo({RowFor(h, r) : r \in kinds}, MaxRows)

\* ------------------------------------------------------------ pandas / DuckDB
\* read_csv infers one dtype per column: int64 when every cell is an integer
\* literal, float64 when every cell is a number, else the cells stay text.
\* The VARCHAR column of the bronze table then stores the value's text.
InferColumn(cells) ==
    IF \A i \in 1..Len(cells) : IsInt(cells[i])
    THEN [i \in 1..Len(cells) |-> IntText(DigitsValue(cells[i]))]
    ELSE IF \A i \in 1..Len(cells) : IsInt(cells[i]) \/ IsFloat(cells[i])
    THEN [i \in 1..Len(cells) |-> FloatText(cells[i])]
    ELSE cells

ReadCsv(h, rows) ==
    LET col(j) == InferColumn([i \in 1..Len(rows) |-> rows[i][j]])
    IN  [i \in 1..Len(rows) |-> [j \in 1..Len(h) |-> col(j)[i]]]

\* df[name] = value: overwrites the column when the frame has it, else appends.
WithColumn(columns, name) ==
    IF \E j \in 1..Len(columns) : columns[j] = name THEN columns
    ELSE Append(columns, name)

FrameColumns(h) == WithColumn(WithColumn(h, "ingest_time"), "file_name")

\* INSERT INTO bronze_produtos SELECT * FROM df binds by position: it needs
\* as many columns as the table has, whatever their names.
InsertBinds(h) == Len(FrameColumns(h)) = 7

BronzeRow(cells, now, file) ==
    [NATBR |-> cells[1], MAKTX |-> cells[2], WERKS |-> cells[3],
     MAINS |-> cells[4], LABST |-> cells[5],
     ingest_time |-> now, file_name |-> file]

RECURSIVE SeqToBag(_)
SeqToBag(q) ==
    IF Len(q) = 0 THEN EmptyBag
    ELSE SeqToBag(Tail(q)) (+) SetToBag({Head(q)})

FrameRows(h, rows, now, file) ==
    LET cells == ReadCsv(h, rows)
    IN  SeqToBag([i \in 1..Len(rows) |-> BronzeRow(cells[i], now, file)])

\* ------------------------------------------------------------ tables
Dropped == [exists |-> FALSE, rows |-> EmptyBag]

Created == [exists |-> TRUE, rows |-> EmptyBag]

Table(b) == [exists |-> TRUE, rows |-> b]

\* ------------------------------------------------------------ silver
\* WHERE ingest_time >= '2025-01-01 00:00:00': clock value 1 is that instant.
Cutoff == 1

Filtered(b) == {r \in BagToSet(b) : r.ingest_time >= Cutoff}

Partitions(F) == {r.NATBR : r \in F}

\* The slip ORDER BY ingest_time ASC: the oldest rows get ROW_NUMBER 1.
LatestAscending(F, k) ==
    {r \in F : r.NATBR = k /\ \A q \in F : q.NATBR = k => r.ingest_time <= q.ingest_time}

\* ORDER BY ingest_time DESC within PARTITION BY NATBR: the rows that may get
\* ROW_NUMBER 1.  Rows of equal ingest_time are peers; which of them comes
\* first is the engine's choice.
Latest(F, k) ==
    {r \in F : r.NATBR = k /\ \A q \in F : q.NATBR = k => q.ingest_time <= r.ingest_time}

\* WHERE rn = 1: one row per partition, each a possible first row.
Ranked(F) == {f \in [Partitions(F) -> F] : \A k \in Partitions(F) : f[k] \in Latest(F, k)}

CastFails(sel) ==
    \E r \in sel : PyInt(r.NATBR) = -1 \/ PyInt(r.MAINS) = -1 \/ PyFloat(r.LABST)[1] = -1

\* drop / rename / astype / processing timestamp
SilverRow(r, now) ==
    [id |-> PyInt(r.NATBR), prod_name |-> r.MAKTX, id_category |-> r.WERKS,
     supplier |-> PyInt(r.MAINS), price |-> PyFloat(r.LABST), ingest_time |-> now]

RECURSIVE SilverFrame(_, _)
SilverFrame(sel, now) ==
    IF sel = {} THEN EmptyBag
    ELSE LET r == CHOOSE x \in sel : TRUE
         IN  SilverFrame(sel \ {r}, now) (+) SetToBag({SilverRow(r, now)})

\* The slip of casting after the DROP: the raise leaves no table.
AfterCastErrorDropped(old) == Dropped

\* The cast (lines 136-146) raises before the DROP of line 152.
AfterCastError(old) == old

\* The slip of leaving out the DROP: the INSERT adds to the rows of before.
ReplaceAppending(out, old, new) ==
    CASE out = "query_error"  -> old
      [] out = "create_error" -> old
      [] out = "insert_error" -> old
      [] OTHER                -> Table(old.rows (+) new)

\* The slip of replacing only when the frame has rows.
ReplaceUnlessEmpty(out, old, new) ==
    CASE out = "query_error"  -> old
      [] out = "create_error" -> Dropped
      [] out = "insert_error" -> Created
      [] OTHER                -> IF new = EmptyBag THEN old ELSE Table(new)

\* One replace of a table: DROP IF EXISTS, CREATE, INSERT, each of which the
\* engine may fail; each statement commits on its own.
Replace(out, old, new) ==
    CASE out = "query_error"  -> old
      [] out = "create_error" -> Dropped
      [] out = "insert_error" -> Created
      [] OTHER                -> Table(new)

EngineOutcomes == {"ok", "query_error", "create_error", "insert_error"}

SilverStage(out, sel, now, old) ==
    IF out = "query_error" THEN [table |-> old, cause |-> "engine"]
    ELSE IF CastFails(sel) THEN [table |-> AfterCastError(old), cause |-> "cast"]
    ELSE [table |-> Replace(out, old, SilverFrame(sel, now)),
          cause |-> IF out = "ok" THEN "" ELSE "engine"]

\* ------------------------------------------------------------ gold
\* The slip SELECT MIN(id), prod_name, price ... GROUP BY prod_name, price.
FatQueryMinId(rows) ==
    SetToBag({[id |-> s.id, prod_name |-> s.prod_name, price |-> s.price] :
              s \in {x \in BagToSet(rows) :
                        \A y \in BagToSet(rows) :
                            (y.prod_name = x.prod_name /\ y.price = x.price) => x.id <= y.id}})

\* SELECT DISTINCT id, prod_name, price FROM silver_produtos
FatQuery(rows) ==
    SetToBag({[id |-> s.id, prod_name |-> s.prod_name, price |-> s.price] :
              s \in BagToSet(rows)})

\* SELECT DISTINCT id, id_category, supplier FROM silver_produtos
DimQuery(rows) ==
    SetToBag({[id |-> s.id, id_category |-> s.id_category, supplier |-> s.supplier] :
              s \in BagToSet(rows)})

GoldStage(out, old, new) ==
    [table |-> Replace(out, old, new), cause |-> IF out = "ok" THEN "" ELSE "engine"]

\* ------------------------------------------------------------ control
\* The slip of logging the error without the raise.
AfterStageContinue(cause, next) == next

\* An uncaught raise ends the script; otherwise the next stage runs.
AfterStage(cause, next) == IF cause = "" THEN next ELSE "failed"

AfterFile(i, files) == IF i = Len(files) THEN "silver" ELSE "bronze"

\* The slip of CREATE TABLE IF NOT EXISTS without the DROP.
BronzeResetKeeping(old) == IF old.exists THEN old ELSE Created

\* DROP TABLE IF EXISTS bronze_produtos, then CREATE.
BronzeReset(old) == Created

Listings ==
    {<<>>} \cup {<<f>> : f \in FileNames}
           \cup {q \in FileNames \X FileNames : q[1] # q[2]}

NoError == [stage |-> "", cause |-> ""]

NoFrame == [file |-> "", columns |-> <<>>, len |-> 0, raised |-> FALSE]

\* ------------------------------------------------------------ state
VARIABLES
    clock,      \* the last reading of datetime.now(), in seconds
    pc,         \* the stage about to run, or idle / done / failed
    runs,       \* runs of the script started so far
    bronze, silver, fat, dim,   \* the four tables of the database file
    csv_files,  \* the listing of the landing directory
    idx,        \* files of csv_files already handled by the loop
    df,         \* the file the loop handled last: name, columns, len(df)
    error,      \* the stage that raised, and why
    prev        \* how the earlier run ended and the tables as this run found them

vars == <<clock, pc, runs, bronze, silver, fat, dim, csv_files, idx, df, error, prev>>

Fresh ==
    /\ pc = "idle"
    /\ runs = 0
    /\ bronze = Dropped /\ silver = Dropped /\ fat = Dropped /\ dim = Dropped
    /\ csv_files = <<>>
    /\ idx = 0
    /\ df = NoFrame
    /\ error = NoError
    /\ prev = [pc |-> "idle", bronze |-> Dropped, silver |-> Dropped,
               fat |-> Dropped, dim |-> Dropped]

\* A clock that may still be before the cutoff.
Init == Fresh /\ clock = 0

\* A clock already past the cutoff.
InitRerun == Fresh /\ clock = Cutoff

\* datetime.now() never runs backwards.
Now == clock..MaxClock

\* Lines 40-68: connect, reset the bronze table, list the landing directory.
StartRun ==
    /\ pc \in {"idle", "done", "failed"}
    /\ runs < MaxRuns
    /\ runs' = runs + 1
    /\ prev' = [pc |-> pc, bronze |-> bronze, silver |-> silver, fat |-> fat, dim |-> dim]
    /\ idx' = 0
    /\ df' = NoFrame
    /\ \E out \in {"ok", "create_error", "listdir_error"}, files \in Listings :
        /\ out # "ok" => files = <<>>
        /\ bronze' = IF out = "create_error" THEN Dropped ELSE BronzeReset(bronze)
        /\ csv_files' = files
        /\ error' = IF out = "ok" THEN NoError
                    ELSE [stage |-> "bronze",
                          cause |-> IF out = "listdir_error" THEN "listdir" ELSE "engine"]
        /\ pc' = AfterStage(error'.cause, AfterFile(0, files))
    /\ UNCHANGED <<clock, silver, fat, dim>>

\* Lines 71-85: one pass of the loop; whatever the body raises is logged.
LoadFile(headers, kinds) ==
    /\ pc = "bronze"
    /\ idx < Len(csv_files)
    /\ \E h \in headers, out \in {"ok", "insert_error"}, now \in Now :
        \E rows \in FileRows(h, kinds) :
            LET file == csv_files[idx + 1]
                raised == ~InsertBinds(h) \/ out = "insert_error"
            IN  /\ clock' = now
                /\ df' = [file |-> file, columns |-> h, len |-> Len(rows), raised |-> raised]
                /\ bronze' = IF raised THEN bronze
                             ELSE Table(bronze.rows (+) FrameRows(h, rows, now, file))
    /\ idx' = idx + 1
    /\ pc' = AfterFile(idx + 1, csv_files)
    /\ UNCHANGED <<runs, silver, fat, dim, csv_files, error, prev>>

\* Lines 88-167.  The clock is read at line 149, after the cast.
Silver ==
    /\ pc = "silver"
    /\ \E out \in EngineOutcomes, f \in Ranked(Filtered(bronze.rows)), now \in Now :
        LET res == SilverStage(out, {f[k] : k \in DOMAIN f}, now, silver)
        IN  /\ clock' = IF out = "query_error" \/ res.cause = "cast" THEN clock ELSE now
            /\ silver' = res.table
            /\ error' = IF res.cause = "" THEN NoError
                        ELSE [stage |-> "silver", cause |-> res.cause]
            /\ pc' = AfterStage(res.cause, "fat")
    /\ df' = NoFrame
    /\ UNCHANGED <<runs, bronze, fat, dim, csv_files, idx, prev>>

\* Lines 180-202.
Fat ==
    /\ pc = "fat"
    /\ \E out \in EngineOutcomes :
        LET res == GoldStage(out, fat, FatQuery(silver.rows))
        IN  /\ fat' = res.table
            /\ error' = IF res.cause = "" THEN NoError
                        ELSE [stage |-> "fat", cause |-> res.cause]
            /\ pc' = AfterStage(res.cause, "dim")
    /\ UNCHANGED <<clock, runs, bronze, silver, dim, csv_files, idx, df, prev>>

\* Lines 205-282.
Dim ==
    /\ pc = "dim"
    /\ \E out \in EngineOutcomes :
        LET res == GoldStage(out, dim, DimQuery(silver.rows))
        IN  /\ dim' = res.table
            /\ error' = IF res.cause = "" THEN NoError
                        ELSE [stage |-> "dim", cause |-> res.cause]
            /\ pc' = AfterStage(res.cause, "done")
    /\ UNCHANGED <<clock, runs, bronze, silver, fat, csv_files, idx, df, prev>>

\* One run of the script on a database file that does not exist yet.
FirstRun == runs = 0 /\ StartRun

Next == FirstRun \/ LoadFile(Headers, RowKinds) \/ Silver \/ Fat \/ Dim

Spec == Init /\ [][Next]_vars

\* The script run again on the database file an earlier run left.
NextRerun == StartRun \/ LoadFile({Schema, MissingColumn}, RerunKinds) \/ Silver \/ Fat \/ Dim

SpecRerun == InitRerun /\ [][NextRerun]_vars

\* ------------------------------------------------------------ properties
\* The silver stage of the current run has replaced silver_produtos.
SilverDone ==
    \/ pc \in {"fat", "dim", "done"}
    \/ pc = "failed" /\ error.stage \in {"fat", "dim"}

Raw == Filtered(bronze.rows)

Newest(F, r) == \A q \in F : q.NATBR = r.NATBR => q.ingest_time <= r.ingest_time

Values(s) ==
    [id |-> s.id, prod_name |-> s.prod_name, id_category |-> s.id_category,
     supplier |-> s.supplier, price |-> s.price]

CastValues(r) == Values(SilverRow(r, 0))

RowsWithId(rows, i) == BagCardinality([s \in {x \in DOMAIN rows : x.id = i} |-> rows[s]])

RECURSIVE ValuesOf(_, _)
ValuesOf(S, rows) ==
    IF S = {} THEN EmptyBag
    ELSE LET x == CHOOSE y \in S : TRUE
         IN  ValuesOf(S \ {x}, rows) (+) (Values(x) :> rows[x])

ValuesBag(rows) == ValuesOf(DOMAIN rows, rows)

RECURSIVE IdsOf(_, _)
IdsOf(S, rows) ==
    IF S = {} THEN EmptyBag
    ELSE LET x == CHOOSE y \in S : TRUE
         IN  IdsOf(S \ {x}, rows) (+) (x.id :> rows[x])

IdsBag(rows) == IdsOf(DOMAIN rows, rows)

\* C1: after a successful silver stage every business key of the filtered raw
\* rows has exactly one current-state row, keys compared as the integers they
\* cast to, and that row's ingest_time is the greatest ingestion timestamp of
\* the filtered raw rows with the key.
C1_OneRowPerKeyWithLatestTimestamp ==
    SilverDone =>
        \A r \in Raw :
            LET i    == PyInt(r.NATBR)
                same == {q \in Raw : PyInt(q.NATBR) = i}
            IN  /\ RowsWithId(silver.rows, i) = 1
                /\ \A s \in DOMAIN silver.rows :
                    s.id = i =>
                        /\ \E q \in same : s.ingest_time = q.ingest_time
                        /\ \A q \in same : q.ingest_time <= s.ingest_time

\* C2: latest version wins.  When the filtered raw rows of a business key
\* carry different ingestion timestamps, the current-state table has a row
\* for the key with the name, category, supplier and price of a raw row of
\* the greatest timestamp, and no row of that id with older values only.
C2_LatestVersionWins ==
    SilverDone =>
        \A r \in Raw :
            (\E q \in Raw : q.NATBR = r.NATBR /\ q.ingest_time # r.ingest_time) =>
                /\ \E s \in DOMAIN silver.rows :
                     \E q \in Raw : /\ q.NATBR = r.NATBR /\ Newest(Raw, q)
                                    /\ Values(s) = CastValues(q)
                /\ \A s \in DOMAIN silver.rows :
                     s.id = PyInt(r.NATBR) =>
                        \E q \in Raw : Newest(Raw, q) /\ Values(s) = CastValues(q)

C2_Witness ==
    /\ pc = "done"
    /\ \E r, q \in Raw :
        /\ r.NATBR = q.NATBR
        /\ r.ingest_time < q.ingest_time
        /\ CastValues(r) # CastValues(q)
        /\ r.file_name = "b.csv" /\ q.file_name = "a.csv"

\* C4: after a successful gold stage the fact table and the dimension table
\* have at most as many rows as silver_produtos, and every id of
\* silver_produtos is in both.
C4_GoldCoversSilver ==
    pc = "done" =>
        /\ fat.exists /\ dim.exists
        /\ BagCardinality(fat.rows) <= BagCardinality(silver.rows)
        /\ BagCardinality(dim.rows) <= BagCardinality(silver.rows)
        /\ \A s \in DOMAIN silver.rows :
            /\ \E x \in DOMAIN fat.rows : x.id = s.id
            /\ \E x \in DOMAIN dim.rows : x.id = s.id

C4_Witness ==
    /\ pc = "done"
    /\ \E s, t \in DOMAIN silver.rows : s.id # t.id
    /\ BagCardinality(fat.rows) = 2

\* C6: a file whose columns are not the five of the schema is skipped and
\* leaves no row in the bronze table; a file with the schema's columns has all
\* its rows appended (unless the engine fails its insert).
C6_PerFileIsolation ==
    df.file # "" =>
        LET n == BagCardinality([r \in {x \in DOMAIN bronze.rows : x.file_name = df.file}
                                 |-> bronze.rows[r]])
        IN  IF df.columns = Schema THEN df.raised \/ n = df.len
            ELSE n = 0

\* C3, as the specification states it: a second run that loads the same raw
\* table as a successful first run leaves silver_produtos, gold_produtos_fat
\* and gold_produtos_dim equal to the first run's.
C3_RerunIdentical ==
    (pc = "done" /\ prev.pc = "done" /\ bronze = prev.bronze) =>
        silver = prev.silver /\ fat = prev.fat /\ dim = prev.dim

\* No key has two newest raw rows that differ in their values.
NoTies(F) ==
    \A r, q \in F :
        (r.NATBR = q.NATBR /\ Newest(F, r) /\ Newest(F, q)) => CastValues(r) = CastValues(q)

\* C3, amended: the second run's silver_produtos holds the same ids, as often,
\* as the first run's; when no key has two newest raw rows of different values
\* the two tables agree on every column but ingest_time (the processing
\* timestamp), and the fact and dimension tables are equal.
C3_RerunAgreesUpToTimestampAndTies ==
    (pc = "done" /\ prev.pc = "done" /\ bronze = prev.bronze) =>
        /\ IdsBag(silver.rows) = IdsBag(prev.silver.rows)
        /\ NoTies(Raw) =>
            /\ ValuesBag(silver.rows) = ValuesBag(prev.silver.rows)
            /\ fat = prev.fat
            /\ dim = prev.dim

C3_Witness ==
    /\ pc = "done" /\ prev.pc = "done" /\ bronze = prev.bronze
    /\ NoTies(Raw)
    /\ silver.rows # EmptyBag
    /\ silver # prev.silver

\* C5: when a filtered raw row has a key that does not cast to an integer the
\* silver stage ends the run, and silver_produtos is the table the earlier run
\* left: not dropped, not recreated empty, not partly filled.
C5_CastAbortKeepsTable ==
    ((\E r \in Raw : PyInt(r.NATBR) = -1) /\ pc \notin {"idle", "bronze", "silver"}) =>
        /\ pc = "failed"
        /\ error.stage = "silver"
        /\ silver = prev.silver

C5_Witness ==
    /\ pc = "failed" /\ error = [stage |-> "silver", cause |-> "cast"]
    /\ \E r \in Raw : PyInt(r.NATBR) = -1
    /\ prev.silver.exists /\ prev.silver.rows # EmptyBag

\* C7, as the specification states it: every raw row the run found in the
\* bronze table is still there when the run has ended.
C7_RawRowsSurviveRun ==
    pc = "done" => prev.bronze.rows \sqsubseteq bronze.rows

\* C7, amended: a run resets the bronze table too.  The step that starts a run
\* leaves it without rows, every other step of the run only adds rows, and the
\* rows it holds come from the files this run has handled.
C7_RunResetsRaw ==
    /\ [](\A r \in DOMAIN bronze.rows : \E i \in 1..idx : csv_files[i] = r.file_name)
    /\ [][/\ runs' # runs => bronze'.rows = EmptyBag
          /\ runs' = runs => bronze.rows \sqsubseteq bronze'.rows]_vars

C7_Witness ==
    /\ pc = "done"
    /\ bronze.rows # EmptyBag
    /\ \E r \in DOMAIN prev.bronze.rows : r \notin DOMAIN bronze.rows

\* C8: when the listing of the landing directory is empty the bronze table
\* gets no row, the run can fail only in the engine, and at its end
\* silver_produtos, gold_produtos_fat and gold_produtos_dim exist and are empty.
C8_EmptyDirectory ==
    (runs > 0 /\ csv_files = <<>> /\ error.stage # "bronze") =>
        /\ bronze = Created
        /\ pc = "failed" => error.cause = "engine"
        /\ pc = "done" => silver = Created /\ fat = Created /\ dim = Created

C8_Witness ==
    /\ pc = "done" /\ csv_files = <<>>
    /\ prev.bronze.rows # EmptyBag /\ prev.silver.rows # EmptyBag
    /\ prev.fat.rows # EmptyBag /\ prev.dim.rows # EmptyBag

\* C9: the same raw table always yields the same selected rows: a run that
\* loads the raw table of a successful earlier run gets the earlier run's
\* silver_produtos, ingest_time (the processing timestamp) aside.
C9_SelectionDeterministic ==
    (SilverDone /\ prev.pc = "done" /\ bronze = prev.bronze) =>
        ValuesBag(silver.rows) = ValuesBag(prev.silver.rows)

\* C10: the stages run in the order bronze, silver, fat, dim; a stage that
\* raises ends the run; a table is as the run found it until its stage runs,
\* so it is when an earlier stage has failed; and a failed dimension build
\* leaves the table of before, no table or an empty one.
C10_Halted ==
    /\ pc \in {"bronze", "silver"} \/ (pc = "failed" /\ error.stage \in {"bronze", "silver"})
        => fat = prev.fat /\ dim = prev.dim
    /\ pc \in {"bronze", "silver"} \/ (pc = "failed" /\ error.stage = "bronze")
        => silver = prev.silver
    /\ pc = "fat" \/ (pc = "failed" /\ error.stage = "fat") => dim = prev.dim
    /\ pc = "dim" => dim = prev.dim
    /\ (pc = "failed" /\ error.stage = "dim") => dim \in {prev.dim, Dropped, Created}
    /\ pc = "failed" <=> error.cause # ""

C10_Order ==
    /\ (pc' # pc \/ runs' # runs) =>
        \/ pc \in {"idle", "done", "failed"} /\ runs' = runs + 1
                /\ pc' \in {"bronze", "silver", "failed"}
        \/ runs' = runs /\ pc = "bronze" /\ pc' = "silver"
        \/ runs' = runs /\ pc = "silver" /\ pc' \in {"fat", "failed"}
        \/ runs' = runs /\ pc = "fat" /\ pc' \in {"dim", "failed"}
        \/ runs' = runs /\ pc = "dim" /\ pc' \in {"done", "failed"}
    /\ error'.cause # "" => pc' = "failed"

C10_StagesInOrderAndHalt == []C10_Halted /\ [][C10_Order]_vars

C10_Witness ==
    /\ pc = "failed" /\ error.stage = "dim"
    /\ silver.rows # EmptyBag
    /\ fat = Table(FatQuery(silver.rows))
    /\ prev.dim.rows # EmptyBag
    /\ dim # Table(DimQuery(silver.rows))

====
